---- MODULE Spec2Model ----
(***************************************************************************)
(* A model of the bank ledger of src/msdt-5/bank/main.py: accounts of the  *)
(* five classes BankAccount, SavingsAccount, CheckingAccount,              *)
(* FixedDepositAccount and CreditCardAccount, LoanAccount, Customer and    *)
(* Bank.  Every method is a pure operator on the object's record, written  *)
(* branch by branch from the method body; an action of the state machine   *)
(* is one call of a method by a driver, with its arguments drawn from      *)
(* small sets.                                                             *)
(*                                                                         *)
(* Amounts and balances are integers (the code accepts any number; the     *)
(* integers are the values main() and the tests use).  A timestamp is      *)
(* not part of a Transaction here: no method modelled below reads it.      *)
(*                                                                         *)
(* The specifications share the variables and the actions: Spec (calls on  *)
(* freshly constructed objects), SpecBank (calls on a bank with its        *)
(* registrations made), SpecGenerator (generate_random_transactions),      *)
(* SpecLoanTest (the monthly payment of test_bank.py's loan), SpecLedger   *)
(* (every call and every read on a bank), SpecHistory (calls on objects    *)
(* that have a history), SpecInterest (apply_interest), and SpecConverter  *)
(* (the currency converter of src/msdt-7/main.py).                         *)
(***************************************************************************)
EXTENDS Integers, Sequences, FiniteSets, TLC

\* The driver makes at most this many calls that change the state.
MaxOps == 1
\* The largest amount a call is given, and the larger initial balance.
MaxAmount == 2
\* CheckingAccount(name, balance, overdraft_limit): the limit the accounts get.
OverdraftLimit == 1
\* CreditCardAccount(name, limit): the limit the cards get.
CreditLimit == 2

\* generate_random_transactions(number_of_transactions): the largest number given.
MaxTransactions == 2
\* random.randint(50, 5000): the two ends of the range of the amounts drawn.
RandomLow == 50
RandomHigh == 5000

\* test_calculate_monthly_payment: LoanAccount(account, 100000, 0.05, 15).
TestLoanAmount == 100000
TestTermYears == 15

\* datetime.timedelta(days=365 * term_years): times are counted in days.
DaysPerYear == 365

\* The account objects.  The driver calls methods on A and B (and passes them
\* as transfer targets); C is an account no call names.
AccountIds == {"A", "B", "C"}
Driven == {"A", "B"}
CustomerIds == {"c1"}
Kinds == {"BankAccount", "SavingsAccount", "CheckingAccount",
          "FixedDepositAccount", "CreditCardAccount"}
Amounts == (-1)..MaxAmount
InitBalances == {0, MaxAmount}
\* The loan amounts of the loans that exist at the start.
LoanAmounts == 1..MaxAmount
\* Annual interest rates as fractions <<numerator, denominator>>.
Rates == {<<0, 1>>, <<6, 1>>, <<12, 1>>}
Terms == {1}
None == 0

VARIABLES
    accounts,    \* account id -> the account object's fields
    loans,       \* the LoanAccount objects created so far, by index
    customers,   \* customer id -> [bank_account, loan_account]
    bank,        \* the Bank object: accounts, loans, customers (lists)
    last,        \* the last call made: method, arguments, how it returned
    prev,        \* the objects as they were when the last call was made
    calls        \* the number of calls made so far that changed the state

vars == <<accounts, loans, customers, bank, last, prev, calls>>

----------------------------------------------------------------------------
\* Transaction.__init__
Transaction(transaction_type, amount) ==
    [transaction_type |-> transaction_type, amount |-> amount]

\* BankAccount.__init__ and the subclasses' __init__; CreditCardAccount.__init__
\* takes no balance and starts at 0.
NewAccount(kind, balance) ==
    [kind |-> kind,
     balance |-> IF kind = "CreditCardAccount" THEN 0 ELSE balance,
     transactions |-> <<>>,
     overdraft_limit |-> IF kind = "CheckingAccount" THEN OverdraftLimit ELSE 0,
     limit |-> IF kind = "CreditCardAccount" THEN CreditLimit ELSE 0]

\* What a method returns to the action: the object after the call, and how the
\* call ended ("done", "diagnostic" when it only printed its refusal).
Ret(self, how) == [self |-> self, how |-> how]

\* BankAccount.deposit without "amount > 0".
BankAccount_deposit_any_sign(self, amount) ==
    Ret([self EXCEPT !.balance = @ + amount,
                     !.transactions = Append(@, Transaction("Deposit", amount))],
        "done")

\* BankAccount.deposit with "self.balance = amount" for "self.balance += amount".
BankAccount_deposit_assigns(self, amount) ==
    IF amount > 0
    THEN Ret([self EXCEPT !.balance = amount,
                          !.transactions = Append(@, Transaction("Deposit", amount))],
             "done")
    ELSE Ret(self, "diagnostic")

\* BankAccount.deposit
BankAccount_deposit(self, amount) ==
    IF amount > 0
    THEN Ret([self EXCEPT !.balance = @ + amount,
                          !.transactions = Append(@, Transaction("Deposit", amount))],
             "done")
    ELSE Ret(self, "diagnostic")

\* CreditCardAccount.deposit with "amount >= 0" for "amount > 0".
CreditCardAccount_deposit_zero(self, amount) ==
    IF amount >= 0
    THEN Ret([self EXCEPT !.balance = @ - amount,
                          !.transactions = Append(@, Transaction("Deposit", amount))],
             "done")
    ELSE Ret(self, "diagnostic")

\* CreditCardAccount.deposit
CreditCardAccount_deposit(self, amount) ==
    IF amount > 0
    THEN Ret([self EXCEPT !.balance = @ - amount,
                          !.transactions = Append(@, Transaction("Deposit", amount))],
             "done")
    ELSE Ret(self, "diagnostic")

\* BankAccount.withdraw with "self.transactions.insert(0, ...)" for ".append(...)".
BankAccount_withdraw_inserts_first(self, amount) ==
    IF amount > 0 /\ self.balance >= amount
    THEN Ret([self EXCEPT !.balance = @ - amount,
                          !.transactions = <<Transaction("Withdrawal", amount)>> \o @],
             "done")
    ELSE Ret(self, "diagnostic")

\* BankAccount.withdraw without "amount > 0".
BankAccount_withdraw_any_sign(self, amount) ==
    IF self.balance >= amount
    THEN Ret([self EXCEPT !.balance = @ - amount,
                          !.transactions = Append(@, Transaction("Withdrawal", amount))],
             "done")
    ELSE Ret(self, "diagnostic")

\* BankAccount.withdraw
BankAccount_withdraw(self, amount) ==
    IF amount > 0 /\ self.balance >= amount
    THEN Ret([self EXCEPT !.balance = @ - amount,
                          !.transactions = Append(@, Transaction("Withdrawal", amount))],
             "done")
    ELSE Ret(self, "diagnostic")

\* CheckingAccount.withdraw with the overdraft limit counted twice.
CheckingAccount_withdraw_twice_limit(self, amount) ==
    IF self.balance + 2 * self.overdraft_limit >= amount
    THEN Ret([self EXCEPT !.balance = @ - amount,
                          !.transactions = Append(@, Transaction("Withdrawal", amount))],
             "done")
    ELSE Ret(self, "diagnostic")

\* CheckingAccount.withdraw with ">" for ">=".
CheckingAccount_withdraw_strict(self, amount) ==
    IF self.balance + self.overdraft_limit > amount
    THEN Ret([self EXCEPT !.balance = @ - amount,
                          !.transactions = Append(@, Transaction("Withdrawal", amount))],
             "done")
    ELSE Ret(self, "diagnostic")

\* CheckingAccount.withdraw
CheckingAccount_withdraw(self, amount) ==
    IF self.balance + self.overdraft_limit >= amount
    THEN Ret([self EXCEPT !.balance = @ - amount,
                          !.transactions = Append(@, Transaction("Withdrawal", amount))],
             "done")
    ELSE Ret(self, "diagnostic")

\* CreditCardAccount.withdraw
CreditCardAccount_withdraw(self, amount) ==
    IF self.balance + amount <= self.limit
    THEN Ret([self EXCEPT !.balance = @ + amount,
                          !.transactions = Append(@, Transaction("Withdrawal", amount))],
             "done")
    ELSE Ret(self, "diagnostic")

\* CreditCardAccount.make_purchase with "<" for "<=".
CreditCardAccount_make_purchase_strict(self, amount) ==
    IF self.balance + amount < self.limit
    THEN Ret([self EXCEPT !.balance = @ + amount,
                          !.transactions = Append(@, Transaction("Purchase", amount))],
             "done")
    ELSE Ret(self, "diagnostic")

\* CreditCardAccount.make_purchase
CreditCardAccount_make_purchase(self, amount) ==
    IF self.balance + amount <= self.limit
    THEN Ret([self EXCEPT !.balance = @ + amount,
                          !.transactions = Append(@, Transaction("Purchase", amount))],
             "done")
    ELSE Ret(self, "diagnostic")

\* CreditCardAccount.make_payment
CreditCardAccount_make_payment(self, amount) ==
    IF amount <= self.balance
    THEN Ret([self EXCEPT !.balance = @ - amount,
                          !.transactions = Append(@, Transaction("Payment", amount))],
             "done")
    ELSE Ret(self, "diagnostic")

\* transfer without "target_account.balance += amount".
Account_transfer_no_credit(accts, src, tgt, amount) ==
    IF accts[src].balance >= amount /\ amount > 0
    THEN LET a1 == [accts EXCEPT ![src].balance = @ - amount]
             a3 == [a1 EXCEPT ![src].transactions =
                                  Append(@, Transaction("Transfer Out", amount))]
             a4 == [a3 EXCEPT ![tgt].transactions =
                                  Append(@, Transaction("Transfer In", amount))]
         IN  Ret(a4, "done")
    ELSE Ret(accts, "diagnostic")

\* transfer with the overdraft limit added to the balance in its guard.
Account_transfer_overdraft(accts, src, tgt, amount) ==
    IF accts[src].balance + accts[src].overdraft_limit >= amount /\ amount > 0
    THEN LET a1 == [accts EXCEPT ![src].balance = @ - amount]
             a2 == [a1 EXCEPT ![tgt].balance = @ + amount]
             a3 == [a2 EXCEPT ![src].transactions =
                                  Append(@, Transaction("Transfer Out", amount))]
             a4 == [a3 EXCEPT ![tgt].transactions =
                                  Append(@, Transaction("Transfer In", amount))]
         IN  Ret(a4, "done")
    ELSE Ret(accts, "diagnostic")

\* transfer that credits the balance the target had before the debit.
Account_transfer_stale_target(accts, src, tgt, amount) ==
    IF accts[src].balance >= amount /\ amount > 0
    THEN LET a1 == [accts EXCEPT ![src].balance = @ - amount]
             a2 == [a1 EXCEPT ![tgt].balance = accts[tgt].balance + amount]
             a3 == [a2 EXCEPT ![src].transactions =
                                  Append(@, Transaction("Transfer Out", amount))]
             a4 == [a3 EXCEPT ![tgt].transactions =
                                  Append(@, Transaction("Transfer In", amount))]
         IN  Ret(a4, "done")
    ELSE Ret(accts, "diagnostic")

\* BankAccount.transfer and CreditCardAccount.transfer (the same body): accts is
\* the heap of account objects, src and tgt the two references, which may be
\* the same object; the four statements run in the code's order.
Account_transfer(accts, src, tgt, amount) ==
    IF accts[src].balance >= amount /\ amount > 0
    THEN LET a1 == [accts EXCEPT ![src].balance = @ - amount]
             a2 == [a1 EXCEPT ![tgt].balance = @ + amount]
             a3 == [a2 EXCEPT ![src].transactions =
                                  Append(@, Transaction("Transfer Out", amount))]
             a4 == [a3 EXCEPT ![tgt].transactions =
                                  Append(@, Transaction("Transfer In", amount))]
         IN  Ret(a4, "done")
    ELSE Ret(accts, "diagnostic")

\* Method resolution: the class of the object picks the body.
Deposit(self, amount) ==
    IF self.kind = "CreditCardAccount"
    THEN CreditCardAccount_deposit(self, amount)
    ELSE BankAccount_deposit(self, amount)

Withdraw(self, amount) ==
    CASE self.kind = "CreditCardAccount" -> CreditCardAccount_withdraw(self, amount)
      [] self.kind = "CheckingAccount"   -> CheckingAccount_withdraw(self, amount)
      [] OTHER                           -> BankAccount_withdraw(self, amount)

----------------------------------------------------------------------------
\* The two classes with apply_interest.  interest_rate is the constructor's
\* argument; the rates used below are whole numbers, which keeps the balances
\* integers.  now is what datetime.datetime.now() returns, in days.
SavingsAccount(balance, interest_rate) ==
    NewAccount("SavingsAccount", balance) @@ [interest_rate |-> interest_rate]

FixedDepositAccount(balance, term_years, interest_rate, now) ==
    NewAccount("FixedDepositAccount", balance)
        @@ [term_years |-> term_years, interest_rate |-> interest_rate,
            maturity_date |-> now + DaysPerYear * term_years]

\* SavingsAccount.apply_interest depositing the rate, not the interest.
SavingsAccount_apply_interest_of_rate(self) ==
    LET interest == self.interest_rate
    IN  BankAccount_deposit(self, interest)

\* SavingsAccount.apply_interest; how is how its call of deposit ended.
SavingsAccount_apply_interest(self) ==
    LET interest == self.balance * self.interest_rate
    IN  BankAccount_deposit(self, interest)

\* FixedDepositAccount.apply_interest with ">" for ">=".
FixedDepositAccount_apply_interest_after(self, now) ==
    IF now > self.maturity_date
    THEN LET interest == self.balance * self.interest_rate
         IN  BankAccount_deposit(self, interest)
    ELSE Ret(self, "diagnostic")

\* FixedDepositAccount.apply_interest
FixedDepositAccount_apply_interest(self, now) ==
    IF now >= self.maturity_date
    THEN LET interest == self.balance * self.interest_rate
         IN  BankAccount_deposit(self, interest)
    ELSE Ret(self, "diagnostic")

----------------------------------------------------------------------------
\* Arithmetic of LoanAccount.calculate_monthly_payment, kept exact: a rate and
\* a payment are fractions <<numerator, denominator>> with denominator > 0.
RECURSIVE GCD(_, _)
GCD(m, n) == IF n = 0 THEN m ELSE GCD(n, m % n)

RECURSIVE Pow(_, _)
Pow(b, n) == IF n = 0 THEN 1 ELSE b * Pow(b, n - 1)

Frac(num, den) == LET g == GCD(num, den) IN <<num \div g, den \div g>>

\* LoanAccount.calculate_monthly_payment:
\*   rate = interest_rate / 12; term_months = term_years * 12
\*   loan_amount * rate / (1 - (1 + rate) ** -term_months)
\* With rate = rn/rd this is
\*   loan_amount * rn * (rd+rn)^n / (rd * ((rd+rn)^n - rd^n)),
\* and the division raises ZeroDivisionError when 1 - (1 + rate) ** -n is 0.0,
\* which is when the rate is 0 or the term is 0.  (For the rates and amounts
\* used here the exact payment is never within 1e-4 of an integer, so the
\* float the code computes compares with an integer amount as the exact
\* value does.)
calculate_monthly_payment(loan_amount, interest_rate, term_years) ==
    LET rate == Frac(interest_rate[1], interest_rate[2] * 12)
        term_months == term_years * 12
        up == Pow(rate[2] + rate[1], term_months)
        dn == Pow(rate[2], term_months)
        den == rate[2] * (up - dn)
    IN  IF den = 0 THEN "ZeroDivisionError"
        ELSE <<loan_amount * rate[1] * up, den>>

\* For a term of years the powers above do not fit TLC's integers, so there
\* (1 + rate) ** term_months is computed in fixed point, as a pair <<lo, hi>>
\* of multiples of 1/Scale with the exact power between them: each
\* multiplication by 1 + rate rounds lo down and hi up.
Scale == 1000000000
\* floor and ceiling of x * n / d, without forming x * n.
MulDivFloor(x, n, d) == (x \div d) * n + ((x % d) * n) \div d
MulDivCeil(x, n, d) == (x \div d) * n + ((x % d) * n + d - 1) \div d

\* g multiplied n times by 1 + rate (zero stays zero).  The n multiplications
\* are made in two halves, each on a value already computed, which keeps the
\* evaluation shallow.
RECURSIVE Compound(_, _, _)
Compound(g, rate, n) ==
    IF n = 0 \/ g[2] = 0 THEN g
    ELSE IF n = 1
    THEN <<g[1] + MulDivFloor(g[1], rate[1], rate[2]),
           g[2] + MulDivCeil(g[2], rate[1], rate[2])>>
    ELSE Compound(Compound(g, rate, n \div 2), rate, n - n \div 2)

\* (1 + rate) ** term_months with term_years for term_months.
monthly_growth_in_years(interest_rate, term_years) ==
    LET rate == Frac(interest_rate[1], interest_rate[2] * 12)
    IN  Compound(<<Scale, Scale>>, rate, term_years)

\* rate = interest_rate / 12; term_months = term_years * 12;
\* (1 + rate) ** term_months
monthly_growth(interest_rate, term_years) ==
    LET rate == Frac(interest_rate[1], interest_rate[2] * 12)
        term_months == term_years * 12
    IN  Compound(<<Scale, Scale>>, rate, term_months)

\* LoanAccount.calculate_monthly_payment in this arithmetic.  With g the
\* power, loan_amount * rate / (1 - g ** -1) is loan_amount * rate * g / (g - 1):
\* the value returned is that expression's three parts, g as <<lo, hi>>.
calculate_monthly_payment_bounds(loan_amount, interest_rate, term_years) ==
    IF interest_rate[1] = 0 \/ term_years = 0
    THEN Ret(<<>>, "ZeroDivisionError")
    ELSE Ret(monthly_growth(interest_rate, term_years), "done")

\* LoanAccount.__init__: the object, or the error calculate_monthly_payment raised.
LoanAccount(account, loan_amount, interest_rate, term_years) ==
    LET mp == calculate_monthly_payment(loan_amount, interest_rate, term_years)
    IN  IF mp = "ZeroDivisionError" THEN Ret(None, "ZeroDivisionError")
        ELSE Ret([account |-> account,
                  loan_amount |-> loan_amount,
                  interest_rate |-> interest_rate,
                  term_years |-> term_years,
                  monthly_payment |-> mp,
                  remaining_balance |-> loan_amount,
                  payment_history |-> <<>>], "done")

\* amount >= self.monthly_payment
AtLeastPayment(amount, mp) == amount * mp[2] >= mp[1]

\* LoanAccount.make_payment that stops the remaining balance at zero.
LoanAccount_make_payment_clamped(self, amount) ==
    IF AtLeastPayment(amount, self.monthly_payment)
    THEN Ret([self EXCEPT !.remaining_balance = IF @ - amount < 0 THEN 0 ELSE @ - amount,
                          !.payment_history = Append(@, amount)], "done")
    ELSE Ret(self, "diagnostic")

\* LoanAccount.make_payment
LoanAccount_make_payment(self, amount) ==
    IF AtLeastPayment(amount, self.monthly_payment)
    THEN Ret([self EXCEPT !.remaining_balance = @ - amount,
                          !.payment_history = Append(@, amount)], "done")
    ELSE Ret(self, "diagnostic")

\* Customer.apply_for_loan with "loan_amount >= 0" for "loan_amount > 0".
Customer_apply_for_loan_zero(cust, heap, loan_amount, interest_rate, term_years) ==
    IF loan_amount >= 0
    THEN LET l == LoanAccount(cust.bank_account, loan_amount, interest_rate, term_years)
         IN  IF l.how = "done"
             THEN Ret([cust |-> [cust EXCEPT !.loan_account = Len(heap) + 1],
                       heap |-> Append(heap, l.self)], "done")
             ELSE Ret([cust |-> cust, heap |-> heap], l.how)
    ELSE Ret([cust |-> cust, heap |-> heap], "diagnostic")

\* Customer.apply_for_loan: cust is the customer's record, heap the loans made
\* so far; returns both.  A constructor that raises leaves both as they were.
Customer_apply_for_loan(cust, heap, loan_amount, interest_rate, term_years) ==
    IF loan_amount > 0
    THEN LET l == LoanAccount(cust.bank_account, loan_amount, interest_rate, term_years)
         IN  IF l.how = "done"
             THEN Ret([cust |-> [cust EXCEPT !.loan_account = Len(heap) + 1],
                       heap |-> Append(heap, l.self)], "done")
             ELSE Ret([cust |-> cust, heap |-> heap], l.how)
    ELSE Ret([cust |-> cust, heap |-> heap], "diagnostic")

\* Customer.make_loan_payment
Customer_make_loan_payment(cust, heap, amount) ==
    IF cust.loan_account # None
    THEN LET r == LoanAccount_make_payment(heap[cust.loan_account], amount)
         IN  Ret([heap EXCEPT ![cust.loan_account] = r.self], r.how)
    ELSE Ret(heap, "diagnostic")

\* Bank.add_account
Bank_add_account(self, account) ==
    [self EXCEPT !.accounts = Append(@, account)]

\* Bank.add_customer
Bank_add_customer(self, c, cust) ==
    LET b1 == [self EXCEPT !.customers = Append(@, c)]
        b2 == [b1 EXCEPT !.accounts = Append(@, cust.bank_account)]
    IN  IF cust.loan_account # None
        THEN [b2 EXCEPT !.loans = Append(@, cust.loan_account)]
        ELSE b2

\* Bank.get_total_balance that counts every registered account object once.
RECURSIVE SumOver(_, _, _)
SumOver(ids, accts, total) ==
    IF ids = {} THEN total
    ELSE LET a == CHOOSE x \in ids : TRUE
         IN  SumOver(ids \ {a}, accts, total + accts[a].balance)
Bank_get_total_balance_by_identity(self, accts) ==
    SumOver({self.accounts[i] : i \in 1..Len(self.accounts)}, accts, 0)

\* sum(account.get_balance() for account in self.accounts), from self.accounts[i] on.
RECURSIVE SumBalances(_, _, _, _)
SumBalances(ls, accts, i, total) ==
    IF i > Len(ls) THEN total
    ELSE SumBalances(ls, accts, i + 1, total + accts[ls[i]].balance)

\* Bank.get_total_balance (get_balance returns self.balance on every class)
Bank_get_total_balance(self, accts) ==
    SumBalances(self.accounts, accts, 1, 0)

\* What one iteration of generate_random_transactions draws: the account, the
\* transaction type, the amount and, for a transfer, the target account (which
\* may be the source).  Every draw with non-zero probability is here, except
\* that the amounts are the two ends of randint's range.
RandomAmounts == {RandomLow, RandomHigh}
RandomChoices(self) ==
    LET registered == {self.accounts[i] : i \in 1..Len(self.accounts)}
    IN  [account : registered, transaction_type : {"deposit", "withdraw"},
         amount : RandomAmounts, target_account : {"-"}]
        \cup
        [account : registered, transaction_type : {"transfer"},
         amount : RandomAmounts, target_account : registered]

\* The draws of a run of number_of_transactions iterations.  With no account
\* registered the first random.choice raises before anything is drawn.
RandomDraws(self, number_of_transactions) ==
    IF self.accounts = <<>> THEN {<<>>}
    ELSE [1..number_of_transactions -> RandomChoices(self)]

\* The body of the loop with every transfer made to the source account itself.
Bank_generate_step_to_self(accts, d) ==
    CASE d.transaction_type = "deposit" ->
            LET r == Deposit(accts[d.account], d.amount)
            IN  Ret([accts EXCEPT ![d.account] = r.self], r.how)
      [] d.transaction_type = "withdraw" ->
            LET r == Withdraw(accts[d.account], d.amount)
            IN  Ret([accts EXCEPT ![d.account] = r.self], r.how)
      [] OTHER ->
            Account_transfer(accts, d.account, d.account, d.amount)

\* The body of the loop of Bank.generate_random_transactions for the draws d.
Bank_generate_step(accts, d) ==
    CASE d.transaction_type = "deposit" ->
            LET r == Deposit(accts[d.account], d.amount)
            IN  Ret([accts EXCEPT ![d.account] = r.self], r.how)
      [] d.transaction_type = "withdraw" ->
            LET r == Withdraw(accts[d.account], d.amount)
            IN  Ret([accts EXCEPT ![d.account] = r.self], r.how)
      [] OTHER ->
            Account_transfer(accts, d.account, d.target_account, d.amount)

\* The loop from iteration i on: the accounts after it and, as log, each
\* iteration's draws with how its call ended.
RECURSIVE Bank_generate_loop(_, _, _, _)
Bank_generate_loop(accts, draws, i, log) ==
    IF i > Len(draws) THEN Ret([accounts |-> accts, log |-> log], "done")
    ELSE LET r == Bank_generate_step(accts, draws[i])
         IN  Bank_generate_loop(r.self, draws, i + 1,
                                Append(log, [draw |-> draws[i], how |-> r.how]))

\* Bank.generate_random_transactions
Bank_generate_random_transactions(self, accts, number_of_transactions, draws) ==
    IF number_of_transactions > 0 /\ self.accounts = <<>>
    THEN Ret([accounts |-> accts, log |-> <<>>], "IndexError")
    ELSE Bank_generate_loop(accts, draws, 1, <<>>)

\* BankAccount.get_balance and CreditCardAccount.get_balance
BankAccount_get_balance(self) == self.balance

\* LoanAccount.get_balance
LoanAccount_get_balance(self) == self.remaining_balance

\* sum(loan.get_balance() for loan in self.loans if loan), from self.loans[i] on.
RECURSIVE SumLoans(_, _, _, _)
SumLoans(ls, heap, i, total) ==
    IF i > Len(ls) THEN total
    ELSE SumLoans(ls, heap, i + 1,
                  IF ls[i] # None
                  THEN total + LoanAccount_get_balance(heap[ls[i]])
                  ELSE total)

\* Bank.get_total_loan_balance
Bank_get_total_loan_balance(self, heap) == SumLoans(self.loans, heap, 1, 0)

\* Customer.show_account_info: what it prints, the balance and, as a list of
\* none or one, the loan balance (the payment history is printed after it).
Customer_show_account_info(cust, heap, accts) ==
    [balance |-> BankAccount_get_balance(accts[cust.bank_account]),
     loan_balance |-> IF cust.loan_account # None
                      THEN <<LoanAccount_get_balance(heap[cust.loan_account])>>
                      ELSE <<>>,
     payment_history |-> IF cust.loan_account # None
                         THEN heap[cust.loan_account].payment_history
                         ELSE <<>>]

\* Bank.generate_report: the two totals it prints and, for each customer in
\* self.customers, what show_account_info prints.
Bank_generate_report(self, heap, accts, custs) ==
    [total_balance |-> Bank_get_total_balance(self, accts),
     total_loan_balance |-> Bank_get_total_loan_balance(self, heap),
     customers |-> [i \in 1..Len(self.customers) |->
                      Customer_show_account_info(custs[self.customers[i]],
                                                 heap, accts)]]

\* account_performance as the dict's items in insertion order: the position
\* of the key account_type, or 0 when the key is absent.
KeyPosition(account_performance, account_type) ==
    IF \E j \in 1..Len(account_performance) :
           account_performance[j].account_type = account_type
    THEN CHOOSE j \in 1..Len(account_performance) :
             account_performance[j].account_type = account_type
    ELSE 0

\* The first loop of account_performance_analysis with
\* "account_performance[account_type] = account.get_balance()" for "+=".
RECURSIVE PerformanceLoop_assigns(_, _, _, _)
PerformanceLoop_assigns(ls, accts, i, account_performance) ==
    IF i > Len(ls) THEN account_performance
    ELSE LET account_type == accts[ls[i]].kind
             present == IF KeyPosition(account_performance, account_type) = 0
                        THEN Append(account_performance,
                                    [account_type |-> account_type,
                                     total_balance |-> 0])
                        ELSE account_performance
             j == KeyPosition(present, account_type)
         IN  PerformanceLoop_assigns(ls, accts, i + 1,
                 [present EXCEPT ![j].total_balance =
                                     BankAccount_get_balance(accts[ls[i]])])
Bank_account_performance_analysis_assigns(self, accts) ==
    PerformanceLoop_assigns(self.accounts, accts, 1, <<>>)

\* The first loop of Bank.account_performance_analysis over self.accounts[i..].
RECURSIVE PerformanceLoop(_, _, _, _)
PerformanceLoop(ls, accts, i, account_performance) ==
    IF i > Len(ls) THEN account_performance
    ELSE LET account_type == accts[ls[i]].kind
             present == IF KeyPosition(account_performance, account_type) = 0
                        THEN Append(account_performance,
                                    [account_type |-> account_type,
                                     total_balance |-> 0])
                        ELSE account_performance
             j == KeyPosition(present, account_type)
         IN  PerformanceLoop(ls, accts, i + 1,
                 [present EXCEPT ![j].total_balance =
                                     @ + BankAccount_get_balance(accts[ls[i]])])

\* Bank.account_performance_analysis: the lines of the second loop, one for
\* each item of the dict, in the dict's order.
Bank_account_performance_analysis(self, accts) ==
    PerformanceLoop(self.accounts, accts, 1, <<>>)

\* risk_level > 0.75 where risk_level = rem / bal and bal # 0.  (4*rem - 3*bal
\* is a non-zero integer unless the quotient is exactly 0.75, so the float
\* quotient is on the same side of 0.75 as the exact one.)
RiskAbove(rem, bal) ==
    IF bal > 0 THEN 4 * rem > 3 * bal ELSE 4 * rem < 3 * bal

\* The loop of Bank.loan_risk_assessment over self.loans[i..]: the list
\* high_risk_loans it builds (loans by index), or the error the division raises.
RECURSIVE RiskLoop(_, _, _, _, _)
RiskLoop(ls, heap, accts, i, high_risk_loans) ==
    IF i > Len(ls) THEN Ret(high_risk_loans, "done")
    ELSE LET loan == heap[ls[i]]
             bal == accts[loan.account].balance
         IN  IF bal = 0 THEN Ret(<<>>, "ZeroDivisionError")
             ELSE RiskLoop(ls, heap, accts, i + 1,
                           IF RiskAbove(loan.remaining_balance, bal)
                           THEN Append(high_risk_loans, ls[i])
                           ELSE high_risk_loans)

\* Bank.loan_risk_assessment
Bank_loan_risk_assessment(self, heap, accts) ==
    RiskLoop(self.loans, heap, accts, 1, <<>>)

----------------------------------------------------------------------------
\* The driver.  A step is one call of one method on the objects of the state.
\* The driver goes on while its calls complete, up to MaxOps calls that change
\* the state; a call that is refused (it only prints its diagnostic) or raises
\* is the last one of the run, and so is a report (main() reports last).
Reports == {"loan_risk_assessment", "get_total_balance", "get_balance",
            "loan.get_balance", "get_total_loan_balance", "generate_report",
            "account_performance_analysis"}
Running == last.how = "done" /\ last.op \notin Reports

Snapshot == [accounts |-> accounts, loans |-> loans,
             customers |-> customers, bank |-> bank]

Count(how) ==
    /\ calls' = IF how = "done" THEN calls + 1 ELSE calls
    /\ calls' <= MaxOps
    /\ prev' = Snapshot

IsCard(a) == accounts[a].kind = "CreditCardAccount"

Call(op, who, amount, target, how) ==
    [op |-> op, who |-> who, amount |-> amount, target |-> target,
     loan |-> None, rate |-> <<0, 1>>, term |-> 0, how |-> how, out |-> <<>>]

\* The objects main() and the tests construct before the first call: account A
\* of any class with either initial balance, account B a BankAccount or a
\* CreditCardAccount, account C a BankAccount, the customer c1 of account A, constructed without a loan
\* or with a LoanAccount on A (Customer(name, bank_account, loan_account)), and
\* an empty Bank.
InitLoans ==
    {<<>>} \cup
    {<<LoanAccount("A", p, r, t).self>> :
        p \in LoanAmounts, r \in {<<6, 1>>}, t \in Terms}

Init ==
    /\ \E k \in Kinds, b \in InitBalances, kb \in {"BankAccount", "CreditCardAccount"} :
          accounts = [a \in AccountIds |->
                        CASE a = "A" -> NewAccount(k, b)
                          [] a = "B" -> NewAccount(kb, MaxAmount)
                          [] OTHER   -> NewAccount("BankAccount", MaxAmount)]
    /\ loans \in InitLoans
    /\ customers = [c \in CustomerIds |->
                      [bank_account |-> "A",
                       loan_account |-> IF loans = <<>> THEN None ELSE 1]]
    /\ bank = [accounts |-> <<>>, loans |-> <<>>, customers |-> <<>>]
    /\ last = Call("init", "-", 0, "-", "done")
    /\ prev = Snapshot
    /\ calls = 0

deposit(a, amount) ==
    /\ Running
    /\ LET r == Deposit(accounts[a], amount)
       IN  /\ accounts' = [accounts EXCEPT ![a] = r.self]
           /\ last' = Call("deposit", a, amount, "-", r.how)
           /\ Count(r.how)
    /\ UNCHANGED <<loans, customers, bank>>

withdraw(a, amount) ==
    /\ Running
    /\ LET r == Withdraw(accounts[a], amount)
       IN  /\ accounts' = [accounts EXCEPT ![a] = r.self]
           /\ last' = Call("withdraw", a, amount, "-", r.how)
           /\ Count(r.how)
    /\ UNCHANGED <<loans, customers, bank>>

transfer(a, amount, target_account) ==
    /\ Running
    /\ LET r == Account_transfer(accounts, a, target_account, amount)
       IN  /\ accounts' = r.self
           /\ last' = Call("transfer", a, amount, target_account, r.how)
           /\ Count(r.how)
    /\ UNCHANGED <<loans, customers, bank>>

make_purchase(a, amount) ==
    /\ Running
    /\ IsCard(a)
    /\ LET r == CreditCardAccount_make_purchase(accounts[a], amount)
       IN  /\ accounts' = [accounts EXCEPT ![a] = r.self]
           /\ last' = Call("make_purchase", a, amount, "-", r.how)
           /\ Count(r.how)
    /\ UNCHANGED <<loans, customers, bank>>

make_payment(a, amount) ==
    /\ Running
    /\ IsCard(a)
    /\ LET r == CreditCardAccount_make_payment(accounts[a], amount)
       IN  /\ accounts' = [accounts EXCEPT ![a] = r.self]
           /\ last' = Call("make_payment", a, amount, "-", r.how)
           /\ Count(r.how)
    /\ UNCHANGED <<loans, customers, bank>>

apply_for_loan(c, loan_amount, interest_rate, term_years) ==
    /\ Running
    /\ LET r == Customer_apply_for_loan(customers[c], loans, loan_amount,
                                        interest_rate, term_years)
       IN  /\ customers' = [customers EXCEPT ![c] = r.self.cust]
           /\ loans' = r.self.heap
           /\ last' = [Call("apply_for_loan", c, loan_amount, "-", r.how)
                         EXCEPT !.rate = interest_rate, !.term = term_years]
           /\ Count(r.how)
    /\ UNCHANGED <<accounts, bank>>

\* make_loan_payment that also takes the amount paid from the payer's account.
make_loan_payment_from_account(c, amount) ==
    /\ Running
    /\ LET r == Customer_make_loan_payment(customers[c], loans, amount)
           a == customers[c].bank_account
       IN  /\ loans' = r.self
           /\ accounts' = IF r.how = "done"
                          THEN [accounts EXCEPT ![a].balance = @ - amount]
                          ELSE accounts
           /\ last' = Call("make_loan_payment", c, amount, "-", r.how)
           /\ Count(r.how)
    /\ UNCHANGED <<customers, bank>>

make_loan_payment(c, amount) ==
    /\ Running
    /\ LET r == Customer_make_loan_payment(customers[c], loans, amount)
       IN  /\ loans' = r.self
           /\ last' = Call("make_loan_payment", c, amount, "-", r.how)
           /\ Count(r.how)
    /\ UNCHANGED <<accounts, customers, bank>>

\* loan.make_payment(amount) on a loan object itself (the bank's loans list
\* and the tests hold such references).
loan_make_payment(l, amount) ==
    /\ Running
    /\ LET r == LoanAccount_make_payment(loans[l], amount)
       IN  /\ loans' = [loans EXCEPT ![l] = r.self]
           /\ last' = [Call("loan.make_payment", "-", amount, "-", r.how)
                         EXCEPT !.loan = l]
           /\ Count(r.how)
    /\ UNCHANGED <<accounts, customers, bank>>

add_account(a) ==
    /\ Running
    /\ bank' = Bank_add_account(bank, a)
    /\ last' = Call("add_account", a, 0, "-", "done")
    /\ Count("done")
    /\ UNCHANGED <<accounts, loans, customers>>

add_customer(c) ==
    /\ Running
    /\ bank' = Bank_add_customer(bank, c, customers[c])
    /\ last' = Call("add_customer", c, 0, "-", "done")
    /\ Count("done")
    /\ UNCHANGED <<accounts, loans, customers>>

\* A report: it changes nothing, so it is not counted.
loan_risk_assessment ==
    /\ Running
    /\ LET r == Bank_loan_risk_assessment(bank, loans, accounts)
       IN  last' = [Call("loan_risk_assessment", "-", 0, "-", r.how)
                      EXCEPT !.out = r.self]
    /\ prev' = Snapshot
    /\ UNCHANGED <<accounts, loans, customers, bank, calls>>

\* A report as well: the total it returns is the one element of last.out.
get_total_balance ==
    /\ Running
    /\ last' = [Call("get_total_balance", "-", 0, "-", "done")
                  EXCEPT !.out = <<Bank_get_total_balance(bank, accounts)>>]
    /\ prev' = Snapshot
    /\ UNCHANGED <<accounts, loans, customers, bank, calls>>

\* The other reads; each leaves in last.out the value it returns or prints.
get_balance(a) ==
    /\ Running
    /\ last' = [Call("get_balance", a, 0, "-", "done")
                  EXCEPT !.out = <<BankAccount_get_balance(accounts[a])>>]
    /\ prev' = Snapshot
    /\ UNCHANGED <<accounts, loans, customers, bank, calls>>

loan_get_balance(l) ==
    /\ Running
    /\ last' = [Call("loan.get_balance", "-", 0, "-", "done")
                  EXCEPT !.loan = l,
                         !.out = <<LoanAccount_get_balance(loans[l])>>]
    /\ prev' = Snapshot
    /\ UNCHANGED <<accounts, loans, customers, bank, calls>>

get_total_loan_balance ==
    /\ Running
    /\ last' = [Call("get_total_loan_balance", "-", 0, "-", "done")
                  EXCEPT !.out = <<Bank_get_total_loan_balance(bank, loans)>>]
    /\ prev' = Snapshot
    /\ UNCHANGED <<accounts, loans, customers, bank, calls>>

generate_report ==
    /\ Running
    /\ last' = [Call("generate_report", "-", 0, "-", "done")
                  EXCEPT !.out = <<Bank_generate_report(bank, loans, accounts,
                                                        customers)>>]
    /\ prev' = Snapshot
    /\ UNCHANGED <<accounts, loans, customers, bank, calls>>

account_performance_analysis ==
    /\ Running
    /\ last' = [Call("account_performance_analysis", "-", 0, "-", "done")
                  EXCEPT !.out = Bank_account_performance_analysis(bank, accounts)]
    /\ prev' = Snapshot
    /\ UNCHANGED <<accounts, loans, customers, bank, calls>>

Next ==
    \/ \E a \in Driven, amount \in Amounts : deposit(a, amount)
    \/ \E a \in Driven, amount \in Amounts : withdraw(a, amount)
    \/ \E a \in Driven, t \in Driven, amount \in Amounts :
           transfer(a, amount, t)
    \/ \E a \in Driven, amount \in Amounts : make_purchase(a, amount)
    \/ \E a \in Driven, amount \in Amounts : make_payment(a, amount)
    \/ \E c \in CustomerIds, amount \in Amounts, rate \in Rates, term \in Terms :
           apply_for_loan(c, amount, rate, term)
    \/ \E c \in CustomerIds, amount \in Amounts : make_loan_payment(c, amount)
    \/ \E l \in DOMAIN loans, amount \in Amounts : loan_make_payment(l, amount)
    \/ \E a \in Driven : add_account(a)
    \/ \E c \in CustomerIds : add_customer(c)
    \/ loan_risk_assessment

Spec == Init /\ [][Next]_vars

----------------------------------------------------------------------------
\* The bank after main()'s registrations: main() registers its accounts with
\* add_account and then its customers with add_customer, before any other
\* call.  Here account A is or is not registered on its own first, and the
\* customer c1 (whose account is A) is registered.
EmptyBank == [accounts |-> <<>>, loans |-> <<>>, customers |-> <<>>]
RegisteredBanks(cust) ==
    {Bank_add_customer(b, "c1", cust) :
        b \in {EmptyBank, Bank_add_account(EmptyBank, "A")}}

InitBank ==
    /\ \E k \in Kinds, b \in InitBalances :
          accounts = [a \in AccountIds |->
                        CASE a = "A" -> NewAccount(k, b)
                          [] OTHER   -> NewAccount("BankAccount", MaxAmount)]
    /\ loans \in InitLoans
    /\ customers = [c \in CustomerIds |->
                      [bank_account |-> "A",
                       loan_account |-> IF loans = <<>> THEN None ELSE 1]]
    /\ bank \in RegisteredBanks(customers["c1"])
    /\ last = Call("init", "-", 0, "-", "done")
    /\ prev = Snapshot
    /\ calls = 0

\* The calls made on a bank with registrations: the registrations, the calls
\* that change a balance or a customer's loan, and the two reports.
NextBank ==
    \/ \E a \in Driven, amount \in Amounts : deposit(a, amount)
    \/ \E a \in Driven, amount \in Amounts : withdraw(a, amount)
    \/ \E c \in CustomerIds, amount \in Amounts, rate \in Rates, term \in Terms :
           apply_for_loan(c, amount, rate, term)
    \/ \E a \in Driven : add_account(a)
    \/ \E c \in CustomerIds : add_customer(c)
    \/ loan_risk_assessment
    \/ get_total_balance

SpecBank == InitBank /\ [][NextBank]_vars

----------------------------------------------------------------------------
\* main()'s call of generate_random_transactions: the first call after the
\* registrations, made once.  last.out is the log of the run.
generate_random_transactions(number_of_transactions) ==
    /\ Running
    /\ last.op = "init"
    /\ \E draws \in RandomDraws(bank, number_of_transactions) :
          LET r == Bank_generate_random_transactions(bank, accounts,
                                                     number_of_transactions, draws)
          IN  /\ accounts' = r.self.accounts
              /\ last' = [Call("generate_random_transactions", "-",
                               number_of_transactions, "-", r.how)
                            EXCEPT !.out = r.self.log]
              /\ Count(r.how)
    /\ UNCHANGED <<loans, customers, bank>>

\* The banks the generator runs on: no account registered, A and B registered
\* once each, or (as main() does with Alice's account) A registered by
\* add_account and again by add_customer.
GeneratorBanks(cust) ==
    LET once == Bank_add_account(Bank_add_account(EmptyBank, "A"), "B")
    IN  {EmptyBank, once, Bank_add_customer(once, "c1", cust)}

\* Balances on the scale of the amounts drawn.
InitGenerator ==
    /\ \E k \in Kinds, b \in {0, RandomHigh} :
          accounts = [a \in AccountIds |->
                        CASE a = "A" -> NewAccount(k, b)
                          [] a = "B" -> NewAccount("BankAccount", RandomLow)
                          [] OTHER   -> NewAccount("BankAccount", MaxAmount)]
    /\ loans = <<>>
    /\ customers = [c \in CustomerIds |->
                      [bank_account |-> "A", loan_account |-> None]]
    /\ bank \in GeneratorBanks(customers["c1"])
    /\ last = Call("init", "-", 0, "-", "done")
    /\ prev = Snapshot
    /\ calls = 0

NextGenerator ==
    \E n \in 0..MaxTransactions : generate_random_transactions(n)

SpecGenerator == InitGenerator /\ [][NextGenerator]_vars

----------------------------------------------------------------------------
\* test_calculate_monthly_payment, for any of the loans below: a LoanAccount
\* is constructed and its monthly_payment read.  The loan is not kept.
TestAmounts == {TestLoanAmount \div 100, TestLoanAmount}
TestRates == {<<n, 100>> : n \in 0..5}
TestTerms == 1..TestTermYears

test_calculate_monthly_payment(loan_amount, interest_rate, term_years) ==
    /\ Running
    /\ LET r == calculate_monthly_payment_bounds(loan_amount, interest_rate,
                                                 term_years)
       IN  last' = [Call("calculate_monthly_payment", "-", loan_amount, "-", r.how)
                      EXCEPT !.rate = interest_rate, !.term = term_years,
                             !.out = r.self]
    /\ prev' = Snapshot
    /\ UNCHANGED <<accounts, loans, customers, bank, calls>>

InitLoanTest ==
    /\ accounts = [a \in AccountIds |-> NewAccount("BankAccount", MaxAmount)]
    /\ loans = <<>>
    /\ customers = [c \in CustomerIds |->
                      [bank_account |-> "A", loan_account |-> None]]
    /\ bank = EmptyBank
    /\ last = Call("init", "-", 0, "-", "done")
    /\ prev = Snapshot
    /\ calls = 0

NextLoanTest ==
    \E loan_amount \in TestAmounts, interest_rate \in TestRates,
       term_years \in TestTerms :
        test_calculate_monthly_payment(loan_amount, interest_rate, term_years)

SpecLoanTest == InitLoanTest /\ [][NextLoanTest]_vars

----------------------------------------------------------------------------
\* Every call of the ledger, the reads included, on a bank with its
\* registrations made.
NextLedger ==
    \/ \E a \in Driven, amount \in Amounts : deposit(a, amount)
    \/ \E a \in Driven, amount \in Amounts : withdraw(a, amount)
    \/ \E a \in Driven, t \in Driven, amount \in Amounts :
           transfer(a, amount, t)
    \/ \E a \in Driven, amount \in Amounts : make_purchase(a, amount)
    \/ \E a \in Driven, amount \in Amounts : make_payment(a, amount)
    \/ \E c \in CustomerIds, amount \in Amounts, rate \in Rates, term \in Terms :
           apply_for_loan(c, amount, rate, term)
    \/ \E c \in CustomerIds, amount \in Amounts : make_loan_payment(c, amount)
    \/ \E l \in DOMAIN loans, amount \in Amounts : loan_make_payment(l, amount)
    \/ \E a \in Driven : add_account(a)
    \/ \E c \in CustomerIds : add_customer(c)
    \/ \E a \in Driven : get_balance(a)
    \/ \E l \in DOMAIN loans : loan_get_balance(l)
    \/ get_total_balance
    \/ get_total_loan_balance
    \/ generate_report
    \/ account_performance_analysis
    \/ loan_risk_assessment

SpecLedger == InitBank /\ [][NextLedger]_vars

----------------------------------------------------------------------------
\* Objects with a past: every account has had a deposit of MaxAmount, and the
\* loan, if there is one, a payment of MaxAmount.
InitHistory ==
    /\ \E k \in Kinds, b \in InitBalances :
          accounts = [a \in AccountIds |->
                        Deposit(CASE a = "A" -> NewAccount(k, b)
                                  [] OTHER   -> NewAccount("BankAccount", MaxAmount),
                                MaxAmount).self]
    /\ \E ls \in InitLoans :
          loans = [i \in DOMAIN ls |->
                     LoanAccount_make_payment(ls[i], MaxAmount).self]
    /\ customers = [c \in CustomerIds |->
                      [bank_account |-> "A",
                       loan_account |-> IF loans = <<>> THEN None ELSE 1]]
    /\ bank = EmptyBank
    /\ last = Call("init", "-", 0, "-", "done")
    /\ prev = Snapshot
    /\ calls = 0

SpecHistory == InitHistory /\ [][Next]_vars

----------------------------------------------------------------------------
\* Accounts that bear interest.  A is a SavingsAccount or a
\* FixedDepositAccount constructed at time 0, with any of the rates; B is a
\* counterpart of any class without apply_interest.
InterestRates == {0 - 1, 0, 1}
\* term_years: 0 makes a deposit that is mature from its construction on.
FixedTerms == {0, 1}
Clock == {0, DaysPerYear - 1, DaysPerYear, DaysPerYear + 1}
InterestAccounts ==
    {SavingsAccount(b, r) : b \in InitBalances, r \in InterestRates}
    \cup {FixedDepositAccount(b, t, r, 0) :
              b \in InitBalances, t \in FixedTerms, r \in InterestRates}

\* apply_interest() on account a while the clock reads now (which only
\* FixedDepositAccount.apply_interest reads).  last.now is that reading.
apply_interest(a, now) ==
    /\ Running
    /\ accounts[a].kind \in {"SavingsAccount", "FixedDepositAccount"}
    /\ LET r == IF accounts[a].kind = "SavingsAccount"
                THEN SavingsAccount_apply_interest(accounts[a])
                ELSE FixedDepositAccount_apply_interest(accounts[a], now)
       IN  /\ accounts' = [accounts EXCEPT ![a] = r.self]
           /\ last' = Call("apply_interest", a, 0, "-", r.how) @@ [now |-> now]
           /\ Count(r.how)
    /\ UNCHANGED <<loans, customers, bank>>

InitInterest ==
    /\ \E x \in InterestAccounts,
          kb \in {"BankAccount", "CheckingAccount", "CreditCardAccount"} :
          accounts = [a \in AccountIds |->
                        CASE a = "A" -> x
                          [] a = "B" -> NewAccount(kb, MaxAmount)
                          [] OTHER   -> NewAccount("BankAccount", MaxAmount)]
    /\ loans = <<>>
    /\ customers = [c \in CustomerIds |->
                      [bank_account |-> "A", loan_account |-> None]]
    /\ bank = EmptyBank
    /\ last = Call("init", "-", 0, "-", "done")
    /\ prev = Snapshot
    /\ calls = 0

NextInterest ==
    \/ \E a \in Driven, amount \in Amounts : deposit(a, amount)
    \/ \E a \in Driven, amount \in Amounts : withdraw(a, amount)
    \/ \E a \in Driven, t \in Driven, amount \in Amounts :
           transfer(a, amount, t)
    \/ \E a \in Driven, now \in Clock : apply_interest(a, now)

SpecInterest == InitInterest /\ [][NextInterest]_vars

----------------------------------------------------------------------------
\* The currency converter (msdt-7/main.py), a program of its own: no object
\* of the bank exists while it runs.  last holds main()'s inputs (who is
\* from_currency, amount the amount typed, conversion_rates what get_currency
\* returned) and out the result lines it printed, as [to_currency, result]
\* with result in hundredths.
popular_currencies ==
    <<"USD", "EUR", "GBP", "AUD", "CAD", "JPY", "CHF", "CNY", "INR", "BRL", "RUB">>

\* A currency of the API's table that is not in popular_currencies, and a
\* code the table does not have.
Unlisted == "KZT"
Unknown == "XXX"
NoRates == [c \in {} |-> 0]

\* The tables get_currency may return: rates per rouble, RUB at 1, every
\* currency at a rate of its own.
Position(currency) ==
    IF currency = Unlisted THEN Len(popular_currencies) + 1
    ELSE CHOOSE i \in 1..Len(popular_currencies) : popular_currencies[i] = currency
Listed == {popular_currencies[i] : i \in 1..Len(popular_currencies)} \cup {Unlisted}
RateTables ==
    {[c \in Listed |-> IF c = "RUB" THEN 1 ELSE Position(c) + 1],
     [c \in Listed |-> IF c = "RUB" THEN 1 ELSE 2 * Position(c) + 1]}

\* get_currency: the table of the response when its status is 200, else None.
get_currency(status, conversion_rates) ==
    IF status = 200 THEN conversion_rates ELSE NoRates

\* round(num / den, 2) in hundredths, den > 0: the nearest integer to
\* 100 * num / den, a tie going to the even one.
Round2(num, den) ==
    LET q == (100 * num) \div den
        r == (100 * num) % den
    IN  CASE 2 * r < den -> q
          [] 2 * r > den -> q + 1
          [] OTHER       -> IF q % 2 = 0 THEN q ELSE q + 1

\* convert_currency
convert_currency(amount, from_currency, to_currency, conversion_rates) ==
    IF from_currency # "RUB"
    THEN Round2(amount * conversion_rates[to_currency],
                conversion_rates[from_currency])
    ELSE Round2(amount * conversion_rates[to_currency], 1)

\* convert_to_popular_currencies: asyncio.gather returns the results in the
\* order of the tasks.
convert_to_popular_currencies(amount, from_currency, conversion_rates) ==
    LET targets == SelectSeq(popular_currencies,
                             LAMBDA to_currency : to_currency # from_currency)
    IN  [i \in 1..Len(targets) |->
            convert_currency(amount, from_currency, targets[i], conversion_rates)]

\* The loop of main() over zip(popular_currencies, results), from pair i on.
RECURSIVE PrintLoop(_, _, _, _)
PrintLoop(from_currency, results, i, printed) ==
    IF i > Len(popular_currencies) \/ i > Len(results) THEN printed
    ELSE PrintLoop(from_currency, results, i + 1,
                   IF popular_currencies[i] # from_currency
                   THEN Append(printed, [to_currency |-> popular_currencies[i],
                                         result |-> results[i]])
                   ELSE printed)

\* main() after its two inputs: the lines printed and how it ended.
Converter_main(from_currency, amount, conversion_rates) ==
    IF conversion_rates = NoRates THEN [out |-> <<>>, how |-> "diagnostic"]
    ELSE IF from_currency # "RUB" /\ from_currency \notin DOMAIN conversion_rates
    THEN [out |-> <<>>, how |-> "KeyError"]
    ELSE [out |-> PrintLoop(from_currency,
                            convert_to_popular_currencies(amount, from_currency,
                                                          conversion_rates),
                            1, <<>>),
          how |-> "done"]

main(from_currency, amount, status, table) ==
    /\ last.op = "init"
    /\ LET conversion_rates == get_currency(status, table)
           r == Converter_main(from_currency, amount, conversion_rates)
       IN  last' = [Call("main", from_currency, amount, "-", r.how)
                       EXCEPT !.out = r.out]
                   @@ [conversion_rates |-> conversion_rates]
    /\ prev' = Snapshot
    /\ UNCHANGED <<accounts, loans, customers, bank, calls>>

InitConverter ==
    /\ accounts = <<>>
    /\ loans = <<>>
    /\ customers = <<>>
    /\ bank = EmptyBank
    /\ last = Call("init", "-", 0, "-", "done")
    /\ prev = Snapshot
    /\ calls = 0

NextConverter ==
    \E from_currency \in Listed \cup {Unknown}, amount \in Amounts,
       status \in {200, 404}, table \in RateTables :
        main(from_currency, amount, status, table)

SpecConverter == InitConverter /\ [][NextConverter]_vars

----------------------------------------------------------------------------
\* The properties.  In the state after a call, last holds the call and prev the
\* objects as they were before it.
Was(a) == prev.accounts[a]
Now(a) == accounts[a]
Standard(acct) == acct.kind \in {"BankAccount", "SavingsAccount", "FixedDepositAccount"}
Card(acct) == acct.kind = "CreditCardAccount"
Checking(acct) == acct.kind = "CheckingAccount"
Succeeded == last.how = "done"
Errors == {"ZeroDivisionError"}
Appended(a, transaction_type) ==
    Now(a).transactions =
        Append(Was(a).transactions, Transaction(transaction_type, last.amount))
Untouched(a) == Now(a) = Was(a)
NothingChanged == Snapshot = prev

\* C1 as stated: after deposit(a) with a > 0 on an account of any variant the
\* balance is the old balance plus a and the last transaction is Deposit(a).
C1_DepositAddsOnEveryVariant ==
    (last.op = "deposit" /\ last.amount > 0) =>
        /\ Now(last.who).balance = Was(last.who).balance + last.amount
        /\ Now(last.who).transactions # <<>>
        /\ Now(last.who).transactions[Len(Now(last.who).transactions)]
               = Transaction("Deposit", last.amount)

\* C1 as amended: after deposit(a) with a > 0 the history is the old history
\* with Deposit(a) appended; the balance is the old balance plus a on a
\* Standard, Savings, Checking or FixedDeposit account and the old balance
\* minus a on a CreditCard account.
C1_DepositByVariant ==
    (last.op = "deposit" /\ last.amount > 0) =>
        /\ Succeeded
        /\ Appended(last.who, "Deposit")
        /\ Now(last.who).balance =
              IF Card(Was(last.who))
              THEN Was(last.who).balance - last.amount
              ELSE Was(last.who).balance + last.amount

C1_Witness ==
    /\ last.op = "deposit" /\ last.amount > 0
    /\ Now(last.who).kind = "SavingsAccount"
    /\ Was(last.who).balance > 0
    /\ Now(last.who).balance = Was(last.who).balance + last.amount

\* C2: deposit(a) with a <= 0 on an account of any variant changes neither the
\* balance nor the number of transactions, and returns without raising.
C2_NonPositiveDepositIsNoOp ==
    (last.op = "deposit" /\ last.amount <= 0) =>
        /\ Now(last.who).balance = Was(last.who).balance
        /\ Len(Now(last.who).transactions) = Len(Was(last.who).transactions)
        /\ last.how \notin Errors

C2_Witness ==
    /\ last.op = "deposit" /\ last.amount = 0
    /\ Card(Now(last.who))
    /\ last.how = "diagnostic"

\* C3: on a Standard, Savings or FixedDeposit account withdraw(a) succeeds iff
\* 0 < a <= balance; on success the balance decreases by a and one Withdrawal
\* is appended, otherwise balance and history are unchanged.
C3_StandardWithdraw ==
    (last.op = "withdraw" /\ Standard(Was(last.who))) =>
        /\ Succeeded <=> (0 < last.amount /\ last.amount <= Was(last.who).balance)
        /\ Succeeded =>
              /\ Now(last.who).balance = Was(last.who).balance - last.amount
              /\ Appended(last.who, "Withdrawal")
        /\ ~Succeeded => Untouched(last.who)

C3_Witness ==
    /\ last.op = "withdraw" /\ Now(last.who).kind = "FixedDepositAccount"
    /\ Succeeded
    /\ last.amount = Was(last.who).balance

\* C4: on a Checking account withdraw(a) succeeds iff a <= balance +
\* overdraft_limit; on success the balance decreases by a and a Withdrawal is
\* appended, on failure balance and history are unchanged.
C4_CheckingWithdraw ==
    (last.op = "withdraw" /\ Checking(Was(last.who))) =>
        /\ Succeeded <=>
              last.amount <= Was(last.who).balance + Was(last.who).overdraft_limit
        /\ Succeeded =>
              /\ Now(last.who).balance = Was(last.who).balance - last.amount
              /\ Appended(last.who, "Withdrawal")
        /\ ~Succeeded => Untouched(last.who)

C4_Witness ==
    /\ last.op = "withdraw" /\ Checking(Now(last.who))
    /\ Succeeded
    /\ last.amount = Was(last.who).balance + Was(last.who).overdraft_limit
    /\ Now(last.who).balance < 0

\* C5: a transfer of a from X to another account Y that passes the guard keeps
\* balance(X) + balance(Y), appends exactly a Transfer Out of a to X's history
\* and a Transfer In of a to Y's, and changes no other account.
C5_TransferConserves ==
    (last.op = "transfer" /\ Succeeded /\ last.who # last.target) =>
        /\ Now(last.who).balance + Now(last.target).balance
              = Was(last.who).balance + Was(last.target).balance
        /\ Appended(last.who, "Transfer Out")
        /\ Appended(last.target, "Transfer In")
        /\ \A z \in AccountIds \ {last.who, last.target} : Untouched(z)
        /\ loans = prev.loans /\ customers = prev.customers /\ bank = prev.bank

C5_Witness ==
    /\ last.op = "transfer" /\ Succeeded /\ last.who # last.target
    /\ Card(Now(last.target))
    /\ Now(last.who).balance = Was(last.who).balance - last.amount
    /\ Now(last.target).balance = Was(last.target).balance + last.amount

\* C6: a transfer succeeds only if amount > 0 and the source balance >= amount,
\* whatever the source variant (an overdraft limit does not count), so the
\* source balance after a transfer is never below zero.
C6_TransferGuard ==
    (last.op = "transfer" /\ Succeeded) =>
        /\ last.amount > 0
        /\ Was(last.who).balance >= last.amount
        /\ Now(last.who).balance >= 0

\* A Checking source with balance < amount <= balance + overdraft_limit is refused.
C6_Witness ==
    /\ last.op = "transfer" /\ ~Succeeded
    /\ Checking(Was(last.who))
    /\ last.amount > 0
    /\ Was(last.who).balance < last.amount
    /\ Was(last.who).balance + Was(last.who).overdraft_limit >= last.amount
    /\ NothingChanged

\* The loan a payment call went to: the customer's loan for
\* Customer.make_loan_payment, the loan itself for LoanAccount.make_payment.
PaidLoan ==
    IF last.op = "make_loan_payment"
    THEN prev.customers[last.who].loan_account
    ELSE last.loan
LoanPayment ==
    \/ last.op = "loan.make_payment"
    \/ last.op = "make_loan_payment" /\ prev.customers[last.who].loan_account # None

\* C7: Loan.make_payment(amount) with amount < monthly_payment leaves
\* remaining_balance and payment_history unchanged; with amount >=
\* monthly_payment it decreases remaining_balance by the full amount (not
\* stopping at zero) and appends one entry of that amount.
C7_LoanPayment ==
    LoanPayment =>
        LET was == prev.loans[PaidLoan]
            now == loans[PaidLoan]
            mp == was.monthly_payment
        IN  /\ last.amount * mp[2] < mp[1] => now = was
            /\ last.amount * mp[2] >= mp[1] =>
                  /\ now.remaining_balance = was.remaining_balance - last.amount
                  /\ now.payment_history = Append(was.payment_history, last.amount)

\* An overpayment: the remaining balance goes below zero.
C7_Witness ==
    /\ LoanPayment /\ Succeeded
    /\ last.amount > prev.loans[PaidLoan].remaining_balance
    /\ loans[PaidLoan].remaining_balance < 0
    /\ Len(loans[PaidLoan].payment_history) = 1

\* The card of the spec's example: balance 0, limit 5000.
ExampleCard == [NewAccount("CreditCardAccount", 0) EXCEPT !.limit = 5000]

\* C8: on a CreditCard account make_purchase(a) and withdraw(a) succeed iff
\* balance + a <= credit_limit and then increase the balance by a;
\* make_payment(a) succeeds iff a <= balance and decreases the balance by a;
\* deposit(a) with a > 0 decreases the balance by a; a purchase of 100 on an
\* empty card followed by deposit(40) gives balance 60.
C8_CreditCardSigns ==
    /\ (last.op \in {"make_purchase", "withdraw"} /\ Card(Was(last.who))) =>
          /\ Succeeded <=> Was(last.who).balance + last.amount <= Was(last.who).limit
          /\ Succeeded => Now(last.who).balance = Was(last.who).balance + last.amount
          /\ ~Succeeded => Untouched(last.who)
    /\ (last.op = "make_payment" /\ Card(Was(last.who))) =>
          /\ Succeeded <=> last.amount <= Was(last.who).balance
          /\ Succeeded => Now(last.who).balance = Was(last.who).balance - last.amount
          /\ ~Succeeded => Untouched(last.who)
    /\ (last.op = "deposit" /\ Card(Was(last.who)) /\ last.amount > 0) =>
          Now(last.who).balance = Was(last.who).balance - last.amount
    /\ CreditCardAccount_make_purchase(ExampleCard, 100).self.balance = 100
    /\ Deposit(CreditCardAccount_make_purchase(ExampleCard, 100).self, 40).self.balance = 60

\* A purchase that takes the card exactly to its limit.
C8_Witness ==
    /\ last.op = "make_purchase" /\ Succeeded
    /\ last.amount > 0
    /\ Now(last.who).balance = Now(last.who).limit

\* The registered loans whose risk, remaining balance / payer balance, is
\* above 0.75 (a quotient by zero is no number, so above nothing).
RiskyLoans ==
    {i \in 1..Len(bank.loans) :
        LET loan == loans[bank.loans[i]]
            bal == accounts[loan.account].balance
        IN  \/ bal > 0 /\ 4 * loan.remaining_balance > 3 * bal
            \/ bal < 0 /\ 4 * loan.remaining_balance < 3 * bal}
Flagged == {last.out[i] : i \in 1..Len(last.out)}

\* C9 as stated: loan_risk_assessment computes the risk of every registered
\* loan and flags exactly the registered loans with risk > 0.75, changing
\* nothing.
C9_RiskAssessmentFlagsExactly ==
    last.op = "loan_risk_assessment" =>
        /\ Succeeded
        /\ Flagged = {bank.loans[i] : i \in RiskyLoans}
        /\ NothingChanged

\* What the code does do: an assessment that completes flags exactly those
\* loans and changes nothing, and it fails to complete only when the payer of
\* a registered loan has balance zero.
RiskAssessmentWhenDefined ==
    /\ (last.op = "loan_risk_assessment" /\ Succeeded) =>
          (Flagged = {bank.loans[i] : i \in RiskyLoans} /\ NothingChanged)
    /\ (last.op = "loan_risk_assessment" /\ ~Succeeded) =>
          \E i \in 1..Len(bank.loans) :
              accounts[loans[bank.loans[i]].account].balance = 0
    /\ RiskAbove(800, 1000) /\ ~RiskAbove(800, 2000)

\* The guard of the call in last fails on the objects in prev.
GuardFails ==
    LET was == Was(last.who)
    IN  \/ last.op = "deposit" /\ last.amount <= 0
        \/ last.op = "withdraw" /\ Standard(was)
              /\ ~(last.amount > 0 /\ was.balance >= last.amount)
        \/ last.op = "withdraw" /\ Checking(was)
              /\ last.amount > was.balance + was.overdraft_limit
        \/ last.op = "withdraw" /\ Card(was)
              /\ was.balance + last.amount > was.limit
        \/ last.op = "transfer"
              /\ (last.amount <= 0 \/ was.balance < last.amount)
        \/ last.op = "make_purchase" /\ was.balance + last.amount > was.limit
        \/ last.op = "make_payment" /\ last.amount > was.balance
        \/ LoanPayment
              /\ LET mp == prev.loans[PaidLoan].monthly_payment
                 IN  last.amount * mp[2] < mp[1]
        \/ last.op = "apply_for_loan" /\ last.amount <= 0
        \/ last.op = "make_loan_payment"
              /\ prev.customers[last.who].loan_account = None

\* C10: a call whose guard fails leaves every balance, history, loan,
\* customer and registry as it was and returns normally.
C10_RefusedCallChangesNothing ==
    GuardFails => (NothingChanged /\ last.how = "diagnostic")

C10_Witness ==
    /\ last.op = "make_loan_payment"
    /\ prev.customers[last.who].loan_account = None
    /\ last.how = "diagnostic"
    /\ NothingChanged

----------------------------------------------------------------------------
\* The objects a registry list holds.
Registered(registry) == {registry[i] : i \in 1..Len(registry)}

\* C11: every customer registered in the bank has its account in the bank's
\* accounts and, if it has a loan, that loan in the bank's loans, also when
\* the loan was obtained through apply_for_loan after the registration.
C11_RegisteredCustomersAreCovered ==
    \A c \in Registered(bank.customers) :
        /\ customers[c].bank_account \in Registered(bank.accounts)
        /\ customers[c].loan_account # None =>
              customers[c].loan_account \in Registered(bank.loans)

\* The payer of some registered loan has balance zero.
SomePayerAtZero ==
    \E i \in 1..Len(bank.loans) :
        accounts[loans[bank.loans[i]].account].balance = 0

\* C12: loan_risk_assessment, when the payer of some registered loan has
\* balance zero, completes for all registered loans and does not end in a
\* division-by-zero error.
C12_ZeroPayerBalanceIsDefined ==
    (last.op = "loan_risk_assessment" /\ SomePayerAtZero) =>
        (Succeeded /\ last.how \notin Errors)

\* C13: constructing a loan with annual interest rate 0, directly or through
\* apply_for_loan with amount > 0, does not fail: the monthly payment is
\* principal / (term_years * 12) and the remaining balance is the principal.
C13_ZeroRateLoanFallsBack ==
    /\ \A p \in LoanAmounts, t \in Terms :
          LoanAccount("A", p, <<0, 1>>, t).how = "done"
    /\ (last.op = "apply_for_loan" /\ last.amount > 0 /\ last.rate[1] = 0) =>
          /\ Succeeded
          /\ customers[last.who].loan_account \in DOMAIN loans
          /\ LET loan == loans[customers[last.who].loan_account]
             IN  /\ loan.monthly_payment[1] * last.term * 12
                        = last.amount * loan.monthly_payment[2]
                 /\ loan.remaining_balance = last.amount

----------------------------------------------------------------------------
\* The run of the generator in last: its log, and what it did to the total.
Generated == last.op = "generate_random_transactions"
TotalChange ==
    Bank_get_total_balance(bank, accounts)
        - Bank_get_total_balance(prev.bank, prev.accounts)

\* The amounts of the deposits that succeeded minus the amounts of the
\* withdrawals that succeeded, over the log from entry i on.
RECURSIVE DepositsLessWithdrawals(_, _)
DepositsLessWithdrawals(log, i) ==
    IF i > Len(log) THEN 0
    ELSE LET e == log[i]
         IN  (CASE e.how # "done" -> 0
                [] e.draw.transaction_type = "deposit" -> e.draw.amount
                [] e.draw.transaction_type = "withdraw" -> 0 - e.draw.amount
                [] OTHER -> 0)
             + DepositsLessWithdrawals(log, i + 1)

\* The number of times account a is registered, and the direction in which a
\* deposit moves its balance.
Registrations(a) ==
    Cardinality({i \in 1..Len(bank.accounts) : bank.accounts[i] = a})
Direction(a) == IF Card(accounts[a]) THEN 0 - 1 ELSE 1

\* The same sum with every amount weighted by the registrations it reaches.
RECURSIVE WeightedChange(_, _)
WeightedChange(log, i) ==
    IF i > Len(log) THEN 0
    ELSE LET e == log[i]
             d == e.draw
         IN  (CASE e.how # "done" -> 0
                [] d.transaction_type = "deposit" ->
                      Registrations(d.account) * Direction(d.account) * d.amount
                [] d.transaction_type = "withdraw" ->
                      0 - Registrations(d.account) * Direction(d.account) * d.amount
                [] OTHER ->
                      (Registrations(d.target_account) - Registrations(d.account))
                          * d.amount)
             + WeightedChange(log, i + 1)

\* C14 as stated: over any run of generate_random_transactions, on any
\* registered accounts, the total balance changes by the deposits that
\* succeeded minus the withdrawals that succeeded.
C14_TotalChangesByDepositsLessWithdrawals ==
    Generated => TotalChange = DepositsLessWithdrawals(last.out, 1)

\* C14 as amended: the total changes by the sum, over the calls that
\* succeeded, of k * s * amount for a deposit, -k * s * amount for a
\* withdrawal and (k of the target - k of the source) * amount for a transfer,
\* k being the number of registrations of the account and s being -1 for a
\* CreditCard and 1 otherwise; so it changes by deposits less withdrawals
\* when every registered account is registered once and none is a CreditCard.
C14_TotalChangesByRegistrations ==
    Generated =>
        /\ TotalChange = WeightedChange(last.out, 1)
        /\ (\A a \in Registered(bank.accounts) :
                Registrations(a) = 1 /\ ~Card(accounts[a])) =>
              TotalChange = DepositsLessWithdrawals(last.out, 1)
        /\ Len(last.out) = IF Succeeded THEN last.amount ELSE 0
        /\ loans = prev.loans /\ customers = prev.customers /\ bank = prev.bank

\* A run with a transfer from the account registered twice to an account
\* registered once: the total falls by the amount.
C14_Witness ==
    /\ Generated /\ Succeeded
    /\ \E i \in 1..Len(last.out) :
          /\ last.out[i].how = "done"
          /\ last.out[i].draw.transaction_type = "transfer"
          /\ Registrations(last.out[i].draw.account) = 2
          /\ Registrations(last.out[i].draw.target_account) = 1
    /\ DepositsLessWithdrawals(last.out, 1) = 0
    /\ TotalChange < 0

----------------------------------------------------------------------------
\* List now is list was with zero or more entries appended.
Extends(now, was) ==
    Len(now) >= Len(was) /\ SubSeq(now, 1, Len(was)) = was

\* The sum over the account objects in ids of the balance times the number of
\* registrations of the object.
RECURSIVE TotalByRegistrations(_)
TotalByRegistrations(ids) ==
    IF ids = {} THEN 0
    ELSE LET a == CHOOSE x \in ids : TRUE
         IN  Registrations(a) * accounts[a].balance
                 + TotalByRegistrations(ids \ {a})

\* C15: the registry only grows, by the appends of add_account and
\* add_customer, and get_total_balance() is the sum of the balances over the
\* registrations, an account registered k times counting k times.
C15_RegistryIsAMultiset ==
    /\ Extends(bank.accounts, prev.bank.accounts)
    /\ Extends(bank.loans, prev.bank.loans)
    /\ Extends(bank.customers, prev.bank.customers)
    /\ last.op = "add_account" =>
          /\ bank.accounts = Append(prev.bank.accounts, last.who)
          /\ bank.loans = prev.bank.loans /\ bank.customers = prev.bank.customers
    /\ last.op = "add_customer" =>
          /\ bank.accounts =
                Append(prev.bank.accounts, customers[last.who].bank_account)
          /\ bank.customers = Append(prev.bank.customers, last.who)
    /\ last.op = "get_total_balance" =>
          /\ last.out = <<TotalByRegistrations(AccountIds)>>
          /\ NothingChanged

\* Account A registered by add_account and again by add_customer, and the
\* total twice its balance.
C15_Witness ==
    /\ last.op = "get_total_balance"
    /\ bank.accounts = <<"A", "A">> /\ bank.customers = <<"c1">>
    /\ accounts["A"].balance > 0
    /\ last.out = <<2 * accounts["A"].balance>>

----------------------------------------------------------------------------
\* a/b < c/d for a, c >= 0 and b, d > 0, by comparing the continued fractions
\* (no product is formed).
RECURSIVE FracLess(_, _, _, _)
FracLess(a, b, c, d) ==
    IF a \div b # c \div d THEN a \div b < c \div d
    ELSE IF c % d = 0 THEN FALSE
    ELSE IF a % b = 0 THEN TRUE
    ELSE FracLess(d, c % d, b, a % b)

\* The payment of the call in last, loan_amount * rate * g / (g - 1), against
\* the value v[1]/v[2], for g = G / Scale.  The payment falls as g grows.
PaymentAbove(v, G) ==
    LET rate == Frac(last.rate[1], last.rate[2] * 12)
    IN  FracLess(v[1] * rate[2], v[2] * last.amount * rate[1], G, G - Scale)
PaymentBelow(v, G) ==
    LET rate == Frac(last.rate[1], last.rate[2] * 12)
    IN  FracLess(G, G - Scale, v[1] * rate[2], v[2] * last.amount * rate[1])
TestLoan ==
    /\ last.op = "calculate_monthly_payment"
    /\ last.amount = TestLoanAmount
    /\ last.rate = <<5, 100>>
    /\ last.term = TestTermYears

\* C16: the monthly payment is principal * (rate/12) / (1 - (1 + rate/12) ^
\* (-12 * term_years)); for principal 100000, annual rate 0.05 and 15 years
\* it is within 0.01 of 790.79.
C16_TestLoanPayment ==
    /\ (last.op = "calculate_monthly_payment" /\ Succeeded) =>
          /\ Scale < last.out[1] /\ last.out[1] <= last.out[2]
          /\ last.out[2] - last.out[1] <= 2 * 12 * last.term
    /\ TestLoan =>
          /\ Succeeded
          /\ PaymentAbove(<<79078, 100>>, last.out[2])
          /\ PaymentBelow(<<79080, 100>>, last.out[1])

\* The test's loan: (1 + 0.05/12) ** 180 is 2.1137...
C16_Witness ==
    /\ TestLoan /\ Succeeded
    /\ last.out[1] > 2113 * (Scale \div 1000)
    /\ last.out[2] < 2114 * (Scale \div 1000)

----------------------------------------------------------------------------
----------------------------------------------------------------------------
\* C18: every Transaction an account operation appends to an account's
\* history has a non-negative amount.
C18_AppendedAmountsAreNonNegative ==
    \A a \in AccountIds :
        \A i \in 1..Len(accounts[a].transactions) :
            accounts[a].transactions[i].amount >= 0

----------------------------------------------------------------------------
\* C19: a self-transfer X.transfer(a, X) succeeds iff 0 < a <= balance(X);
\* then the balance of X is unchanged and X's history gains a Transfer Out
\* of a followed by a Transfer In of a; otherwise nothing changes.
C19_SelfTransfer ==
    (last.op = "transfer" /\ last.who = last.target) =>
        /\ Succeeded <=> (0 < last.amount /\ last.amount <= Was(last.who).balance)
        /\ Succeeded =>
              /\ Now(last.who).balance = Was(last.who).balance
              /\ Now(last.who).transactions =
                    Was(last.who).transactions
                        \o <<Transaction("Transfer Out", last.amount),
                             Transaction("Transfer In", last.amount)>>
              /\ \A z \in AccountIds \ {last.who} : Untouched(z)
              /\ loans = prev.loans /\ customers = prev.customers
              /\ bank = prev.bank
        /\ ~Succeeded => NothingChanged

\* A self-transfer of the whole balance.
C19_Witness ==
    /\ last.op = "transfer" /\ last.who = last.target /\ Succeeded
    /\ last.amount = Was(last.who).balance
    /\ Now(last.who).balance = last.amount
    /\ Len(Now(last.who).transactions) = 2

----------------------------------------------------------------------------
\* The registered loans whose remaining balance exceeds 75% of the payer's
\* current balance.
LoansAboveThreshold ==
    {bank.loans[i] : i \in
        {j \in 1..Len(bank.loans) :
            4 * loans[bank.loans[j]].remaining_balance
                > 3 * accounts[loans[bank.loans[j]].account].balance}}

\* C20: when no registered loan's payer has balance zero, whatever the sign
\* of the balances, loan_risk_assessment flags a registered loan iff its
\* remaining balance exceeds 75% of the payer's current balance.
C20_FlagsAboveThresholdForAnySign ==
    (last.op = "loan_risk_assessment" /\ ~SomePayerAtZero) =>
        (Succeeded /\ Flagged = LoansAboveThreshold)

----------------------------------------------------------------------------
\* The calls by kind.
AccountOps == {"deposit", "withdraw", "transfer", "make_purchase", "make_payment"}
LoanOps == {"make_loan_payment", "loan.make_payment"}

\* What the read in last returns when made again, in this state.
ReadAgain ==
    CASE last.op = "get_balance" ->
            <<BankAccount_get_balance(accounts[last.who])>>
      [] last.op = "loan.get_balance" ->
            <<LoanAccount_get_balance(loans[last.loan])>>
      [] last.op = "get_total_balance" ->
            <<Bank_get_total_balance(bank, accounts)>>
      [] last.op = "get_total_loan_balance" ->
            <<Bank_get_total_loan_balance(bank, loans)>>
      [] last.op = "generate_report" ->
            <<Bank_generate_report(bank, loans, accounts, customers)>>
      [] last.op = "account_performance_analysis" ->
            Bank_account_performance_analysis(bank, accounts)
      [] OTHER ->
            Bank_loan_risk_assessment(bank, loans, accounts).self

\* C21: a loan payment leaves every account and every other loan unchanged,
\* an account operation leaves every loan unchanged, and a read leaves all
\* accounts, loans and registries unchanged, so that the same read made
\* again returns the same value; hence a balance changes only by an account
\* operation and a remaining balance only by that loan's make_payment.
C21_FrameEffects ==
    /\ last.op \in LoanOps =>
          /\ accounts = prev.accounts
          /\ customers = prev.customers /\ bank = prev.bank
          /\ \A l \in DOMAIN loans :
                (~LoanPayment \/ l # PaidLoan) => loans[l] = prev.loans[l]
    /\ last.op \in AccountOps =>
          loans = prev.loans /\ customers = prev.customers /\ bank = prev.bank
    /\ last.op \in Reports =>
          NothingChanged /\ last.out = ReadAgain
    /\ (\E a \in AccountIds : Now(a) # Was(a)) => last.op \in AccountOps
    /\ \A l \in DOMAIN prev.loans :
          loans[l].remaining_balance # prev.loans[l].remaining_balance =>
              (LoanPayment /\ l = PaidLoan)

\* A payment on the customer's loan, with the payer's account as it was.
C21_Witness ==
    /\ last.op = "make_loan_payment" /\ Succeeded
    /\ loans[PaidLoan].remaining_balance
           = prev.loans[PaidLoan].remaining_balance - last.amount
    /\ Now(loans[PaidLoan].account) = Was(loans[PaidLoan].account)
    /\ Now(loans[PaidLoan].account).balance > 0

----------------------------------------------------------------------------
\* The entries account a's history gained in the last call.
Gained(a) ==
    SubSeq(Now(a).transactions, Len(Was(a).transactions) + 1,
           Len(Now(a).transactions))

\* C22: account histories and loan payment histories are append-only: the
\* history before a call is a prefix of the history after it (so of the
\* history in every later state), and what a call adds comes after all
\* earlier entries, in the order the call made them.
C22_HistoriesAreAppendOnly ==
    /\ \A a \in AccountIds :
          /\ Extends(Now(a).transactions, Was(a).transactions)
          /\ \A i \in 1..Len(Gained(a)) :
                Succeeded /\ Gained(a)[i].amount = last.amount
    /\ Len(loans) >= Len(prev.loans)
    /\ \A l \in DOMAIN prev.loans :
          /\ Extends(loans[l].payment_history, prev.loans[l].payment_history)
          /\ Len(loans[l].payment_history)
                 <= Len(prev.loans[l].payment_history) + 1
          /\ loans[l].payment_history # prev.loans[l].payment_history =>
                loans[l].payment_history =
                    Append(prev.loans[l].payment_history, last.amount)
    /\ (last.op = "transfer" /\ Succeeded /\ last.who = last.target) =>
          Gained(last.who) = <<Transaction("Transfer Out", last.amount),
                               Transaction("Transfer In", last.amount)>>
    /\ (last.op \in {"deposit", "withdraw", "make_purchase", "make_payment"}
            /\ Succeeded) =>
          Len(Gained(last.who)) = 1

\* A withdrawal recorded after the deposit made before it.
C22_Witness ==
    /\ last.op = "withdraw" /\ Succeeded
    /\ Was(last.who).transactions = <<Transaction("Deposit", MaxAmount)>>
    /\ Now(last.who).transactions =
          <<Transaction("Deposit", MaxAmount),
            Transaction("Withdrawal", last.amount)>>

----------------------------------------------------------------------------
\* The interest apply_interest computes on the account as it was.
Interest(acct) == acct.balance * acct.interest_rate
AppliedInterest(kind) ==
    last.op = "apply_interest" /\ Was(last.who).kind = kind
InterestDeposited ==
    /\ Now(last.who).balance = Was(last.who).balance + Interest(Was(last.who))
    /\ Now(last.who).transactions =
          Append(Was(last.who).transactions,
                 Transaction("Deposit", Interest(Was(last.who))))

\* C23 as stated: SavingsAccount.apply_interest deposits balance *
\* interest_rate unconditionally: for every balance and rate the balance
\* afterwards is the old balance plus the interest and a Deposit of the
\* interest has been appended to the history.
C23_InterestIsDepositedForEveryBalanceAndRate ==
    AppliedInterest("SavingsAccount") => InterestDeposited

\* C23, amended: SavingsAccount.apply_interest hands balance * interest_rate
\* to deposit whatever the balance and the rate are, and returns normally.
\* When the interest is positive the balance afterwards is the old balance
\* plus the interest and a Deposit of the interest has been appended; when it
\* is zero or negative deposit refuses it and the account is as it was.  No
\* other object changes.
C23_InterestIsDepositedWhenPositive ==
    AppliedInterest("SavingsAccount") =>
        /\ Interest(Was(last.who)) > 0 => (InterestDeposited /\ Succeeded)
        /\ Interest(Was(last.who)) <= 0 =>
              (Untouched(last.who) /\ last.how = "diagnostic")
        /\ \A a \in AccountIds \ {last.who} : Untouched(a)
        /\ loans = prev.loans /\ customers = prev.customers /\ bank = prev.bank

\* Interest added to a savings account with money in it.
C23_Witness ==
    /\ AppliedInterest("SavingsAccount")
    /\ Was(last.who).balance = MaxAmount /\ Was(last.who).interest_rate = 1
    /\ Now(last.who).balance = 2 * MaxAmount
    /\ Now(last.who).transactions = <<Transaction("Deposit", MaxAmount)>>

----------------------------------------------------------------------------
\* The last call was op on a FixedDepositAccount.
OnFixedDeposit(op) ==
    last.op = op /\ Was(last.who).kind = "FixedDepositAccount"
Matured == last.now >= Was(last.who).maturity_date

\* C24: on a FixedDepositAccount, apply_interest before maturity_date changes
\* neither the balance nor the history (nor anything else), and at or after
\* maturity_date it deposits balance * interest_rate, with deposit's outcome
\* (a positive interest is added and recorded as a Deposit; deposit refuses
\* an interest that is not positive).  deposit, withdraw and transfer read
\* no clock and follow the guards of the base class whatever maturity_date is.
C24_InterestWaitsForMaturity ==
    /\ (OnFixedDeposit("apply_interest") /\ ~Matured) =>
          NothingChanged /\ last.how = "diagnostic"
    /\ (OnFixedDeposit("apply_interest") /\ Matured) =>
          /\ Interest(Was(last.who)) > 0 => (InterestDeposited /\ Succeeded)
          /\ Interest(Was(last.who)) <= 0 => Untouched(last.who)
          /\ \A a \in AccountIds \ {last.who} : Untouched(a)
    /\ OnFixedDeposit("deposit") =>
          /\ Succeeded <=> last.amount > 0
          /\ Succeeded =>
                /\ Now(last.who).balance = Was(last.who).balance + last.amount
                /\ Appended(last.who, "Deposit")
          /\ ~Succeeded => NothingChanged
    /\ OnFixedDeposit("withdraw") =>
          /\ Succeeded <=>
                (last.amount > 0 /\ last.amount <= Was(last.who).balance)
          /\ Succeeded =>
                /\ Now(last.who).balance = Was(last.who).balance - last.amount
                /\ Appended(last.who, "Withdrawal")
          /\ ~Succeeded => NothingChanged
    /\ OnFixedDeposit("transfer") =>
          /\ Succeeded <=>
                (last.amount > 0 /\ last.amount <= Was(last.who).balance)
          /\ (Succeeded /\ last.target # last.who) =>
                /\ Now(last.who).balance = Was(last.who).balance - last.amount
                /\ Appended(last.who, "Transfer Out")
                /\ Now(last.target).balance
                       = Was(last.target).balance + last.amount
                /\ Appended(last.target, "Transfer In")
          /\ ~Succeeded => NothingChanged

\* Interest deposited by the call made exactly at maturity_date, one year
\* after the construction.
C24_Witness ==
    /\ OnFixedDeposit("apply_interest")
    /\ Was(last.who).maturity_date = DaysPerYear
    /\ last.now = DaysPerYear
    /\ Was(last.who).balance = MaxAmount
    /\ Now(last.who).balance = 2 * MaxAmount
    /\ Now(last.who).transactions = <<Transaction("Deposit", MaxAmount)>>

----------------------------------------------------------------------------
\* C27: a BankAccount, SavingsAccount or FixedDepositAccount constructed with
\* a balance that is not negative never has a negative balance, whatever
\* deposit, withdraw, apply_interest and transfer calls are made on it or
\* towards it, with any amounts, any interest rate and a counterpart of any
\* class.  (Every such account here is constructed with balance >= 0.)
C27_StandardBalancesStayNonNegative ==
    \A a \in AccountIds :
        Standard(accounts[a]) =>
            /\ prev.accounts[a].balance >= 0
            /\ accounts[a].balance >= 0

\* An interest-bearing account emptied by a withdrawal or a transfer of all
\* that was in it.
C27_Witness ==
    /\ last.op \in {"withdraw", "transfer"} /\ Succeeded
    /\ last.who # last.target
    /\ Was(last.who).kind \in {"SavingsAccount", "FixedDepositAccount"}
    /\ Was(last.who).balance = last.amount
    /\ Now(last.who).balance = 0

----------------------------------------------------------------------------
\* The sum of the balances of the registrations i.. whose account has the
\* variant tag account_type.
RECURSIVE TagTotal(_, _)
TagTotal(account_type, i) ==
    IF i > Len(bank.accounts) THEN 0
    ELSE (IF accounts[bank.accounts[i]].kind = account_type
          THEN accounts[bank.accounts[i]].balance ELSE 0)
         + TagTotal(account_type, i + 1)

\* The position of the first registration of an account with the tag.
FirstRegistration(account_type) ==
    CHOOSE i \in 1..Len(bank.accounts) :
        /\ accounts[bank.accounts[i]].kind = account_type
        /\ \A h \in 1..(i - 1) : accounts[bank.accounts[h]].kind # account_type

\* The sum of the totals reported in lines j.. of the report.
RECURSIVE ReportedTotal(_, _)
ReportedTotal(lines, j) ==
    IF j > Len(lines) THEN 0
    ELSE lines[j].total_balance + ReportedTotal(lines, j + 1)

\* C25: account_performance_analysis reports one line for each variant tag
\* among the registered accounts, in the order of the tags' first
\* registrations, with the sum of the balances of the registrations that
\* have the tag (an account registered twice counts twice); the reported
\* totals add up to get_total_balance(), and the report changes nothing.
C25_PerformanceGroupsByTag ==
    last.op = "account_performance_analysis" =>
        LET lines == last.out
            tags  == {accounts[bank.accounts[i]].kind :
                          i \in 1..Len(bank.accounts)}
        IN  /\ {lines[j].account_type : j \in 1..Len(lines)} = tags
            /\ Len(lines) = Cardinality(tags)
            /\ \A j \in 1..Len(lines) :
                  lines[j].total_balance = TagTotal(lines[j].account_type, 1)
            /\ \A j, k \in 1..Len(lines) :
                  j < k => FirstRegistration(lines[j].account_type)
                               < FirstRegistration(lines[k].account_type)
            /\ ReportedTotal(lines, 1) = Bank_get_total_balance(bank, accounts)
            /\ NothingChanged

\* The report on a bank where account A is registered twice and account B,
\* of another class, after it: two lines, the first with twice A's balance.
C25_Witness ==
    /\ last.op = "account_performance_analysis"
    /\ bank.accounts = <<"A", "A", "B">>
    /\ accounts["A"].kind = "SavingsAccount"
    /\ accounts["A"].balance = MaxAmount
    /\ last.out = <<[account_type |-> "SavingsAccount",
                     total_balance |-> 2 * MaxAmount],
                    [account_type |-> "BankAccount",
                     total_balance |-> accounts["B"].balance]>>

----------------------------------------------------------------------------
\* C26: whatever purchases, cash advances, payments, deposits and transfers
\* (in either direction, between any accounts, with any amounts) are made,
\* the balance owed on a CreditCardAccount never exceeds its credit_limit.
\* (Every card here is constructed with a balance within its limit.)
C26_CardBalanceWithinLimit ==
    \A a \in AccountIds :
        Card(accounts[a]) => accounts[a].balance <= accounts[a].limit

----------------------------------------------------------------------------
\* C28: for every source currency, each result line main() prints pairs a
\* target currency with the amount convert_to_popular_currencies computed
\* for that same target currency.
C28_LinesPairTargetWithItsAmount ==
    last.op = "main" =>
        \A i \in 1..Len(last.out) :
            last.out[i].result =
                convert_currency(last.amount, last.who,
                                 last.out[i].to_currency, last.conversion_rates)
====
